---- MODULE Spec2Model ----
(***************************************************************************)
(* Snapshot ingestion pipeline of the warehouse backend: the sync_jobs      *)
(* table and the edge functions that write it (trigger-snapshot,            *)
(* check-snapshot, process-snapshot, abort-snapshot), and the flattening    *)
(* and batch upsert of a snapshot file into inventory_positions.            *)
(*                                                                         *)
(* Spec         job lifecycle: trigger, overlapping polls, ingestion calls, *)
(*              abort, the clock.  Snapshot files are abstracted to their   *)
(*              record count and parse outcome.                             *)
(* SpecTrigger  trigger-snapshot requests and their responses.              *)
(* SpecFlatten  parseAndExtract applied to every file of a bounded family.  *)
(* SpecIngest   a snapshot file flattened and written by two ingestions     *)
(*              whose batch upserts interleave.                             *)
(* Time is counted in minutes.                                              *)
(***************************************************************************)
EXTENDS Integers, Sequences, FiniteSets, TLC

\* SQL NULL / JS undefined of a numeric column or field
Null == 0 - 1

(***************************************************************************)
(* Program constants                                                        *)
(***************************************************************************)
STALE_JOB_HOURS == 2
MINUTES_PER_HOUR == 60
RETRY_AFTER_MINUTES == 5
TOKEN_BUFFER_MINUTES == 5
\* 1000 in the source; scaled down so that a file of a few records spans
\* several batches.  The code uses it only as slice width and progress modulus.
BATCH_SIZE == 2

(***************************************************************************)
(* Bounds                                                                   *)
(***************************************************************************)
\* Rows of sync_jobs in Spec, and in SpecTrigger.
MaxJobs == 1
MaxTriggered == 3
MaxPolls == 2
MaxAborts == 1
NumWarehouses == 2
\* Rows of sync_jobs in SpecAbort.
MaxAbortJobs == 2

\* The instants the clock takes: their differences fall on both sides of the
\* 5 minute limit (5, 6) and of the 2 hour limit (120, 121).
Instants == {0, 1, 6, 121}
\* Stored expires_at of the access token: 6 is exactly 5 minutes after
\* instant 1.
TokenExpiries == {6, 10, 500}
ActiveWarehouses == 1..NumWarehouses
\* One more registry row, is_active = false.
AllWarehouses == 1..(NumWarehouses + 1)
Pollers == {"p1", "p2"}
\* Number of records a snapshot file flattens to (abstract file of Spec).
Totals == {0, BATCH_SIZE + 1}

VARIABLES
  now,        \* wall clock, minutes
  expires_at, \* api_credentials.expires_at
  jobs,       \* sync_jobs: sequence of rows, index = id = snapshot_id
  trig,       \* response of the last trigger-snapshot request
  poller,     \* per check-snapshot invocation: its locals and summary counts
  inflight,   \* progress updates issued by process-snapshot and not awaited
  abortResp,  \* response of the last abort-snapshot request
  polls,      \* check-snapshot requests received so far
  aborts,     \* abort-snapshot requests received so far
  file,       \* SpecIngest: the snapshot file
  store,      \* SpecIngest: inventory_positions
  ing         \* SpecIngest: per ingestion: records, batch position, stats

jobVars == <<now, expires_at, jobs, trig, poller, inflight, abortResp, polls, aborts>>
ingVars == <<file, store, ing>>
vars == <<now, expires_at, jobs, trig, poller, inflight, abortResp, polls, aborts,
          file, store, ing>>

Min(a, b) == IF a < b THEN a ELSE b
CeilDiv(a, b) == (a + b - 1) \div b
Range(s) == {s[i] : i \in 1..Len(s)}

(***************************************************************************)
(* sync_jobs rows                                                           *)
(***************************************************************************)
Terminal == {"completed", "failed", "cancelled"}
ActiveStatus == {"pending", "processing"}

\* Variant for comparison: a row that names no warehouse.
NewJobUnscoped(sid, wid, t) ==
  [snapshot_id |-> sid, warehouse_id |-> Null, status |-> "pending",
   error_message |-> "none", total_items |-> Null, processed_items |-> 0,
   created_at |-> t, started_at |-> Null, completed_at |-> Null,
   first_processing_at |-> Null]

\* INSERT of trigger-snapshot: columns not given take the table defaults.
\* first_processing_at is history, no column of the table: the instant of the
\* first write that set the row to processing.
NewJob(sid, wid, t) ==
  [snapshot_id |-> sid, warehouse_id |-> wid, status |-> "pending",
   error_message |-> "none", total_items |-> Null, processed_items |-> 0,
   created_at |-> t, started_at |-> Null, completed_at |-> Null,
   first_processing_at |-> Null]

\* .update({status: "failed", error_message, completed_at}).eq("id", id)
MarkFailed(js, id, msg, t) ==
  [js EXCEPT ![id] = [@ EXCEPT !.status = "failed", !.error_message = msg,
                                !.completed_at = t]]

\* .update({status: "processing", started_at}).eq("id", id)
MarkProcessing(js, id, t) ==
  [js EXCEPT ![id] = [@ EXCEPT !.status = "processing", !.started_at = t,
                                !.first_processing_at = IF @ = Null THEN t ELSE @]]

\* updateSyncJobStatus: the fields present in updateData overwrite the row.
updateSyncJobStatus(js, id, status, totalItems, processedItems, errorMessage, t) ==
  IF id \notin DOMAIN js THEN js
  ELSE [js EXCEPT ![id] =
         [@ EXCEPT !.status = status,
                   !.started_at = IF status = "processing" THEN t ELSE @,
                   !.first_processing_at =
                      IF status = "processing" /\ @ = Null THEN t ELSE @,
                   !.completed_at = IF status \in {"completed", "failed"} THEN t ELSE @,
                   !.total_items = IF totalItems # Null THEN totalItems ELSE @,
                   !.processed_items = IF processedItems # Null THEN processedItems ELSE @,
                   !.error_message = IF errorMessage # "none" THEN errorMessage ELSE @]]

(***************************************************************************)
(* trigger-snapshot                                                         *)
(***************************************************************************)
\* Variant for comparison: no buffer before the expiry.
isTokenExpiredNow(expiresAt, t) == expiresAt <= t

isTokenExpired(expiresAt, t) == expiresAt - TOKEN_BUFFER_MINUTES <= t

\* before and out are history: the number of rows before the request and the
\* outcome the environment gave each warehouse's iteration.
NoTrigger ==
  [kind |-> "none", all |-> FALSE, before |-> 0, out |-> <<>>,
   requested |-> <<>>, success |-> FALSE,
   total_warehouses |-> 0, successful |-> 0, failed |-> 0,
   sync_jobs |-> <<>>, results |-> <<>>]

\* Outcome of one warehouse's iteration: the upstream mutation succeeds and the
\* insert succeeds ("ok"), the insert fails ("insert_error"), or callShipHeroAPI
\* throws TokenExpiredError ("auth") or ShipHeroAPIError ("api").
TriggerOutcomes == {"ok", "insert_error", "auth", "api"}

\* The body of the loop over warehousesToSync for warehouse w with outcome o:
\* acc = [jobs, requested, sync_jobs, results].
TriggerStep(w, o, t, acc) ==
  LET req == Append(acc.requested, w)
      id == Len(acc.jobs) + 1
      inserted == o = "ok"
  IN  IF o \in {"auth", "api"}
      THEN [acc EXCEPT !.requested = req,
                       !.results = Append(@, [warehouse_id |-> w, status |-> "failed",
                                              success |-> FALSE])]
      ELSE [jobs |-> IF inserted THEN Append(acc.jobs, NewJob(id, w, t)) ELSE acc.jobs,
            requested |-> req,
            sync_jobs |-> IF inserted
                          THEN Append(acc.sync_jobs,
                                 [id |-> id, snapshot_id |-> id, warehouse_id |-> w,
                                  status |-> "pending"])
                          ELSE acc.sync_jobs,
            results |-> Append(acc.results, [warehouse_id |-> w, status |-> "enqueued",
                                             success |-> TRUE])]

\* Variant for comparison: a loop that the first failed warehouse ends.
RECURSIVE TriggerLoopStopping(_, _, _, _, _)
TriggerLoopStopping(ws, out, i, t, acc) ==
  IF i > Len(ws) THEN acc
  ELSE IF out[ws[i]] \in {"auth", "api"} THEN TriggerStep(ws[i], out[ws[i]], t, acc)
  ELSE TriggerLoopStopping(ws, out, i + 1, t, TriggerStep(ws[i], out[ws[i]], t, acc))

\* for (const warehouse of warehousesToSync) { try {...} catch {...} }
RECURSIVE TriggerLoop(_, _, _, _, _)
TriggerLoop(ws, out, i, t, acc) ==
  IF i > Len(ws) THEN acc
  ELSE TriggerLoop(ws, out, i + 1, t, TriggerStep(ws[i], out[ws[i]], t, acc))

\* Rows of warehouse_registry with is_active = true, as a list.
RECURSIVE SeqOfSet(_)
SeqOfSet(S) ==
  IF S = {} THEN <<>>
  ELSE LET m == CHOOSE x \in S : \A y \in S : x <= y
       IN  <<m>> \o SeqOfSet(S \ {m})

CountWhere(s, P(_)) == Cardinality({i \in 1..Len(s) : P(s[i])})

IsSuccess(r) == r.success
IsFailure(r) == ~r.success

\* The handler's summary response (STEP 4).
TriggerSummary(ws, all, acc) ==
  [NoTrigger EXCEPT
     !.kind = "summary", !.all = all, !.requested = acc.requested,
     !.success = (CountWhere(acc.results, IsFailure) = 0),
     !.total_warehouses = Len(ws),
     !.successful = CountWhere(acc.results, IsSuccess),
     !.failed = CountWhere(acc.results, IsFailure),
     !.sync_jobs = acc.sync_jobs, !.results = acc.results]

\* POST trigger-snapshot {warehouse_id?}: wid = Null when the body names none.
\* The table after the request, and the response.
TriggerResult(js, wid, out, expiresAt, t) ==
  LET ws == IF wid # Null THEN <<wid>> ELSE SeqOfSet(ActiveWarehouses)
      acc == TriggerLoop(ws, out, 1, t,
               [jobs |-> js, requested |-> <<>>, sync_jobs |-> <<>>, results |-> <<>>])
      hist == [NoTrigger EXCEPT !.all = (wid = Null), !.before = Len(js), !.out = out]
  IN  IF isTokenExpired(expiresAt, t)
      THEN [jobs |-> js, resp |-> [hist EXCEPT !.kind = "token_expired"]]
      ELSE IF Len(ws) = 0
      THEN [jobs |-> js, resp |-> [hist EXCEPT !.kind = "no_warehouses"]]
      ELSE [jobs |-> acc.jobs,
            resp |-> [TriggerSummary(ws, wid = Null, acc) EXCEPT
                        !.before = Len(js), !.out = out]]

\* cap: the model's bound on the rows of the table.
Trigger(wid, out, cap) ==
  /\ LET r == TriggerResult(jobs, wid, out, expires_at, now)
     IN  /\ Len(r.jobs) <= cap
         /\ jobs' = r.jobs
         /\ trig' = r.resp
  /\ UNCHANGED <<now, expires_at, poller, inflight, abortResp, polls, aborts>>
  /\ UNCHANGED ingVars

TriggerAll ==
  \E out \in [ActiveWarehouses -> TriggerOutcomes] : Trigger(Null, out, MaxTriggered)

TriggerOne ==
  \E wid \in AllWarehouses : \E o \in TriggerOutcomes :
    Trigger(wid, [w \in AllWarehouses |-> o], MaxTriggered)

\* The same request where its response is not looked at: a trigger whose
\* upstream calls and inserts all succeed.
TriggerJobs ==
  /\ \E wid \in {Null, 1} :
       LET r == TriggerResult(jobs, wid, [w \in AllWarehouses |-> "ok"], expires_at, now)
       IN  /\ Len(r.jobs) <= MaxJobs
           /\ r.resp.kind = "summary"
           /\ jobs' = r.jobs
  /\ UNCHANGED <<now, expires_at, trig, poller, inflight, abortResp, polls, aborts>>
  /\ UNCHANGED ingVars

\* The same for the table of SpecAbort.
TriggerMore ==
  /\ \E wid \in {Null, 1} :
       LET r == TriggerResult(jobs, wid, [w \in AllWarehouses |-> "ok"], expires_at, now)
       IN  /\ Len(r.jobs) <= MaxAbortJobs
           /\ r.resp.kind = "summary"
           /\ jobs' = r.jobs
  /\ UNCHANGED <<now, expires_at, trig, poller, inflight, abortResp, polls, aborts>>
  /\ UNCHANGED ingVars

(***************************************************************************)
(* The clock                                                                *)
(***************************************************************************)
\* An update request in flight is answered within the minute.
Tick ==
  /\ inflight = {}
  /\ \E t \in Instants : t > now /\ now' = t
  /\ UNCHANGED <<expires_at, jobs, trig, poller, inflight, abortResp, polls, aborts>>
  /\ UNCHANGED ingVars

(***************************************************************************)
(* check-snapshot                                                           *)
(***************************************************************************)
\* Variant for comparison: a limit one hour longer.
isJobStaleLater(createdAt, t) ==
  (t - createdAt) > (STALE_JOB_HOURS + 1) * MINUTES_PER_HOUR

isJobStale(createdAt, t) ==
  (t - createdAt) > STALE_JOB_HOURS * MINUTES_PER_HOUR

\* snapshot.status texts the upstream answers with.
StatusTexts ==
  {"InventorySnapshotStatus.success", "InventorySnapshotStatus.enqueued",
   "InventorySnapshotStatus.error", "Completed with errors"}

\* statusLower.includes(word)
Includes(text, word) ==
  CASE text = "InventorySnapshotStatus.success" -> word = "success"
    [] text = "InventorySnapshotStatus.error" -> word = "error"
    [] text = "Completed with errors" -> word \in {"complete", "error"}
    [] OTHER -> FALSE

isComplete(text) == Includes(text, "complete") \/ Includes(text, "success")
\* Variant for comparison: "error" is not looked for.
isFailedOrAborted(text) == Includes(text, "failed") \/ Includes(text, "aborted")

isFailedText(text) ==
  Includes(text, "error") \/ Includes(text, "failed") \/ Includes(text, "aborted")

\* What the status query of one job comes back with.
UpResponses ==
  [kind : {"http_error", "gql_not_found", "gql_other", "throw"},
   status : {""}, url : {FALSE}, error : {FALSE}]
  \cup [kind : {"data"}, status : StatusTexts, url : BOOLEAN, error : BOOLEAN]

\* The locals of one invocation.  queried, calls, fresh and ended are history:
\* the jobs whose status was queried, the ingestion calls that reached
\* process-snapshot, the jobs taken through the pending branch, and how each
\* call ended ("success", "errors", "threw", "unreached").
IdlePoller ==
  [pc |-> "idle", list |-> <<>>, i |-> 0,
   completed |-> 0, processing |-> 0, failed |-> 0, stale |-> 0,
   results |-> <<>>, queried |-> {}, calls |-> <<>>, fresh |-> {}, ended |-> {},
   retry |-> FALSE,
   total |-> 0, k |-> 0, done |-> 0, berrs |-> 0, derr |-> FALSE]

\* .in("status", ["pending", "processing"]).order("created_at", ascending)
RECURSIVE OldestFirst(_, _)
OldestFirst(js, S) ==
  IF S = {} THEN <<>>
  ELSE LET m == CHOOSE x \in S :
                  \A y \in S : \/ js[x].created_at < js[y].created_at
                               \/ (js[x].created_at = js[y].created_at /\ x <= y)
       IN  <<[id |-> m, status |-> js[m].status]>> \o OldestFirst(js, S \ {m})

ActiveJobs(js) == OldestFirst(js, {j \in DOMAIN js : js[j].status \in ActiveStatus})

Cur(p) == poller[p].list[poller[p].i]

\* status: "failed", "error", or "upstream" for the text the upstream gave.
JobResult(id, status, triggered, markedStale) ==
  [snapshot_id |-> id, status |-> status,
   processing_triggered |-> triggered, marked_stale |-> markedStale]

\* results.push(r) and the end of the loop body: the next job, or the summary.
PushAndAdvance(st, r) ==
  [st EXCEPT !.results = Append(@, r),
             !.i = @ + 1,
             !.pc = IF st.i + 1 > Len(st.list) THEN "return" ELSE "loop",
             !.retry = FALSE,
             !.total = 0, !.k = 0, !.done = 0, !.berrs = 0, !.derr = FALSE]

\* The select of the active jobs; with none the handler answers at once.
PollSelect(p) ==
  /\ poller[p].pc = "idle"
  /\ LET l == ActiveJobs(jobs)
     IN  poller' = [poller EXCEPT ![p] =
                      IF l = <<>> THEN [IdlePoller EXCEPT !.pc = "return"]
                      ELSE [IdlePoller EXCEPT !.list = l, !.i = 1, !.pc = "loop"]]
  /\ UNCHANGED <<now, expires_at, jobs, trig, inflight, abortResp, aborts>>
  /\ UNCHANGED ingVars

\* One of the MaxPolls invocations of a bounded run.
PollStart(p) ==
  /\ polls < MaxPolls
  /\ polls' = polls + 1
  /\ PollSelect(p)

\* One of the invocations of a schedule that never ends.
PollAgain(p) ==
  /\ polls' = polls
  /\ PollSelect(p)

\* The handler answers with the counts and results it holds (total_checked is
\* the length of list); its locals are gone afterwards.
PollReturn(p) ==
  /\ poller[p].pc = "return"
  /\ poller' = [poller EXCEPT ![p] = IdlePoller]
  /\ UNCHANGED <<now, expires_at, jobs, trig, inflight, abortResp, polls, aborts>>
  /\ UNCHANGED ingVars

\* The stale branch of the loop body.
PollVisitStale(p) ==
  /\ poller[p].pc = "loop"
  /\ isJobStale(jobs[Cur(p).id].created_at, now)
  /\ jobs' = MarkFailed(jobs, Cur(p).id, "timeout", now)
  /\ poller' = [poller EXCEPT ![p] =
                  PushAndAdvance([@ EXCEPT !.stale = @ + 1],
                                 JobResult(Cur(p).id, "failed", FALSE, TRUE))]
  /\ UNCHANGED <<now, expires_at, trig, inflight, abortResp, polls, aborts>>
  /\ UNCHANGED ingVars

\* The status query and the branch taken on its answer r.
PollVisitQuery(p, r) ==
  /\ poller[p].pc = "loop"
  /\ ~isJobStale(jobs[Cur(p).id].created_at, now)
  /\ LET id == Cur(p).id
         st == [poller[p] EXCEPT !.queried = @ \cup {id}]
     IN  CASE r.kind = "http_error" ->
                /\ jobs' = MarkFailed(jobs, id, "api_error", now)
                /\ poller' = [poller EXCEPT ![p] =
                     PushAndAdvance([st EXCEPT !.failed = @ + 1],
                                    JobResult(id, "error", FALSE, FALSE))]
           [] r.kind = "gql_not_found" ->
                /\ jobs' = MarkFailed(jobs, id, "not_found", now)
                /\ poller' = [poller EXCEPT ![p] =
                     PushAndAdvance([st EXCEPT !.failed = @ + 1],
                                    JobResult(id, "error", FALSE, FALSE))]
           [] r.kind \in {"gql_other", "throw"} ->
                /\ jobs' = jobs
                /\ poller' = [poller EXCEPT ![p] =
                     PushAndAdvance([st EXCEPT !.failed = @ + 1],
                                    JobResult(id, "error", FALSE, FALSE))]
           [] r.kind = "data" /\ isComplete(r.status) /\ r.url ->
                IF Cur(p).status = "pending"
                THEN /\ jobs' = MarkProcessing(jobs, id, now)
                     /\ poller' = [poller EXCEPT ![p] =
                          [st EXCEPT !.completed = @ + 1, !.pc = "call", !.retry = FALSE,
                                     !.fresh = @ \cup {id}]]
                ELSE /\ jobs' = jobs
                     /\ IF /\ jobs[id].started_at # Null
                           /\ (now - jobs[id].started_at) > RETRY_AFTER_MINUTES
                        THEN poller' = [poller EXCEPT ![p] =
                               [st EXCEPT !.completed = @ + 1, !.pc = "call", !.retry = TRUE]]
                        ELSE poller' = [poller EXCEPT ![p] =
                               PushAndAdvance([st EXCEPT !.completed = @ + 1],
                                              JobResult(id, "upstream", FALSE, FALSE))]
           [] r.kind = "data" /\ ~(isComplete(r.status) /\ r.url) /\ isFailedText(r.status) ->
                /\ jobs' = MarkFailed(jobs, id,
                                      IF r.error THEN "upstream_error" ELSE "upstream_generic",
                                      now)
                /\ poller' = [poller EXCEPT ![p] =
                     PushAndAdvance([st EXCEPT !.failed = @ + 1],
                                    JobResult(id, "upstream", FALSE, FALSE))]
           [] OTHER ->
                /\ jobs' = jobs
                /\ poller' = [poller EXCEPT ![p] =
                     PushAndAdvance([st EXCEPT !.processing = @ + 1],
                                    JobResult(id, "upstream", FALSE, FALSE))]
  /\ UNCHANGED <<now, expires_at, trig, inflight, abortResp, polls, aborts>>
  /\ UNCHANGED ingVars

\* fetch(processUrl) throws: the catch of the pending branch marks the job
\* failed, the catch of the retry branch only logs.
PollCallThrows(p) ==
  /\ poller[p].pc = "call"
  /\ LET id == Cur(p).id
         st == [poller[p] EXCEPT !.ended = @ \cup {<<id, "unreached">>}]
     IN  IF st.retry
         THEN /\ jobs' = jobs
              /\ poller' = [poller EXCEPT ![p] =
                   PushAndAdvance(st, JobResult(id, "upstream", FALSE, FALSE))]
         ELSE /\ jobs' = MarkFailed(jobs, id, "processing_error", now)
              /\ poller' = [poller EXCEPT ![p] =
                   PushAndAdvance([st EXCEPT !.failed = @ + 1],
                                  JobResult(id, "upstream", FALSE, FALSE))]
  /\ UNCHANGED <<now, expires_at, trig, inflight, abortResp, polls, aborts>>
  /\ UNCHANGED ingVars

(***************************************************************************)
(* process-snapshot, as called by check-snapshot with job_id                *)
(***************************************************************************)
\* The handler up to streamProcessSnapshot: the job is set to processing.
IngestBegin(p) ==
  /\ poller[p].pc = "call"
  /\ jobs' = updateSyncJobStatus(jobs, Cur(p).id, "processing", Null, Null, "none", now)
  /\ poller' = [poller EXCEPT ![p] =
                  [@ EXCEPT !.pc = "fetch", !.calls = Append(@, Cur(p).id)]]
  /\ UNCHANGED <<now, expires_at, trig, inflight, abortResp, polls, aborts>>
  /\ UNCHANGED ingVars

\* Fetch or JSON.parse throws: the handler answers 500 without touching the
\* job; check-snapshot marks it failed in the pending branch only.
IngestFetchThrows(p) ==
  /\ poller[p].pc = "fetch"
  /\ LET id == Cur(p).id
         st == [poller[p] EXCEPT !.ended = @ \cup {<<id, "threw">>}]
     IN  IF st.retry
         THEN /\ jobs' = jobs
              /\ poller' = [poller EXCEPT ![p] =
                   PushAndAdvance(st, JobResult(id, "upstream", FALSE, FALSE))]
         ELSE /\ jobs' = MarkFailed(jobs, id, "trigger_failed", now)
              /\ poller' = [poller EXCEPT ![p] =
                   PushAndAdvance([st EXCEPT !.failed = @ + 1],
                                  JobResult(id, "upstream", FALSE, FALSE))]
  /\ UNCHANGED <<now, expires_at, trig, inflight, abortResp, polls, aborts>>
  /\ UNCHANGED ingVars

\* The file is read and flattened to total records; derr: some warehouse
\* identifier did not decode (stats.errors is not empty).
IngestParsed(p, total, derr) ==
  /\ poller[p].pc = "fetch"
  /\ poller' = [poller EXCEPT ![p] =
                  [@ EXCEPT !.pc = "batches", !.total = total, !.derr = derr,
                            !.k = 1, !.done = 0, !.berrs = 0]]
  /\ UNCHANGED <<now, expires_at, jobs, trig, inflight, abortResp, polls, aborts>>
  /\ UNCHANGED ingVars

\* The progress callback's condition, and the update it issues.
ReportsProgress(processed, total) ==
  processed % (BATCH_SIZE * 10) = 0 \/ processed = total

\* One iteration of processBatches; the progress update of a written batch is
\* issued and not awaited.
IngestBatch(p, ok) ==
  /\ poller[p].pc = "batches"
  /\ poller[p].k <= CeilDiv(poller[p].total, BATCH_SIZE)
  /\ LET st == poller[p]
         processed == Min(st.k * BATCH_SIZE, st.total)
     IN  IF ok
         THEN /\ poller' = [poller EXCEPT ![p] = [st EXCEPT !.k = @ + 1, !.done = @ + 1]]
              /\ inflight' = IF ReportsProgress(processed, st.total)
                             THEN inflight \cup {[job |-> Cur(p).id, total |-> st.total,
                                                  processed |-> processed, at |-> now]}
                             ELSE inflight
         ELSE /\ poller' = [poller EXCEPT ![p] = [st EXCEPT !.k = @ + 1, !.berrs = @ + 1]]
              /\ inflight' = inflight
  /\ UNCHANGED <<now, expires_at, jobs, trig, abortResp, polls, aborts>>
  /\ UNCHANGED ingVars

\* An issued progress update reaches the table.
ProgressLands ==
  /\ \E w \in inflight :
       /\ jobs' = updateSyncJobStatus(jobs, w.job, "processing", w.total, w.processed,
                                      "none", w.at)
       /\ inflight' = inflight \ {w}
  /\ UNCHANGED <<now, expires_at, trig, poller, abortResp, polls, aborts>>
  /\ UNCHANGED ingVars

\* result.success of streamProcessSnapshot
IngestSuccess(berrs, derr) == berrs = 0 /\ ~derr

\* The final status update and the 200 / 207 answer; check-snapshot records
\* processing_triggered.
IngestFinal(p) ==
  /\ poller[p].pc = "batches"
  /\ poller[p].k > CeilDiv(poller[p].total, BATCH_SIZE)
  /\ LET id == Cur(p).id
         ok == IngestSuccess(poller[p].berrs, poller[p].derr)
         st == [poller[p] EXCEPT
                  !.ended = @ \cup {<<id, IF ok THEN "success" ELSE "errors">>}]
     IN  /\ jobs' = IF ok
                    THEN updateSyncJobStatus(jobs, id, "completed", st.total, st.total,
                                             "none", now)
                    ELSE updateSyncJobStatus(jobs, id, "failed", st.total,
                                             st.done * BATCH_SIZE, "ingest_errors", now)
         /\ poller' = [poller EXCEPT ![p] =
              PushAndAdvance(st, JobResult(id, "upstream", TRUE, FALSE))]
  /\ UNCHANGED <<now, expires_at, trig, inflight, abortResp, polls, aborts>>
  /\ UNCHANGED ingVars

(***************************************************************************)
(* abort-snapshot                                                           *)
(***************************************************************************)
\* .eq("status", "pending").order("created_at", descending).limit(1)
LatestPending(js) ==
  LET P == {j \in DOMAIN js : js[j].status = "pending"}
  IN  IF P = {} THEN Null
      ELSE js[CHOOSE x \in P :
                \A y \in P : \/ js[x].created_at > js[y].created_at
                             \/ (js[x].created_at = js[y].created_at /\ x >= y)].snapshot_id

\* Variant for comparison: an update that leaves completed_at out.
MarkCancelledOpen(js, sid, msg, t) ==
  [j \in DOMAIN js |->
     IF js[j].snapshot_id = sid
     THEN [js[j] EXCEPT !.status = "cancelled", !.error_message = msg]
     ELSE js[j]]

\* .update({status: "cancelled", error_message, completed_at}).eq("snapshot_id", sid)
MarkCancelled(js, sid, msg, t) ==
  [j \in DOMAIN js |->
     IF js[j].snapshot_id = sid
     THEN [js[j] EXCEPT !.status = "cancelled", !.error_message = msg, !.completed_at = t]
     ELSE js[j]]

\* The body of the request: reason = "" when it gives none.
DefaultReason == "Cancelled by user"
AbortReasons == {"", "stock recount"}

\* errors[0].message of an upstream answer that carries errors; "" when the
\* first error has no message.
AbortErrorTexts ==
  {"Snapshot is already finished", "Error while processing the request",
   "Cannot abort this snapshot", "Snapshot not found", ""}

\* errorMessage.toLowerCase().includes(word)
AbortTextIncludes(text, word) ==
  CASE text = "Snapshot is already finished" -> word = "already"
    [] text = "Error while processing the request" -> word = "process"
    [] text = "Cannot abort this snapshot" -> word = "cannot abort"
    [] OTHER -> FALSE

\* Variant for comparison: "process" is not looked for.
isAlreadyOrCannot(errorMessage) ==
  \/ AbortTextIncludes(errorMessage, "already")
  \/ AbortTextIncludes(errorMessage, "cannot abort")

\* Variant for comparison: every error text counts.
isAnyError(errorMessage) == errorMessage = errorMessage

isAlreadyProcessing(errorMessage) ==
  \/ AbortTextIncludes(errorMessage, "already")
  \/ AbortTextIncludes(errorMessage, "process")
  \/ AbortTextIncludes(errorMessage, "cannot abort")

\* What the upstream abort mutation comes back with: data ("ok"), a non-2xx
\* answer, an answer with errors, or fetch throws.
AbortOutcomes ==
  [kind : {"ok", "http_error", "throw"}, text : {""}]
  \cup [kind : {"gql_error"}, text : AbortErrorTexts]

\* The answer: its kind, the success field and the HTTP status, the snapshot
\* the request was about.  called is history: the upstream mutation was sent.
AbortResponse(kind, success, status, sid, called) ==
  [kind |-> kind, success |-> success, status |-> status, snapshot_id |-> sid,
   called |-> called]

NoAbort == AbortResponse("none", FALSE, 0, Null, FALSE)

\* POST abort-snapshot {snapshot_id?, reason?}: given = Null when the body
\* names no snapshot.  The table after the request and the response.  The
\* access token is there, and the database takes the update.
AbortResult(js, given, reason, outcome, t) ==
  LET sid == IF given # Null THEN given ELSE LatestPending(js)
      why == IF reason # "" THEN reason ELSE DefaultReason
      errorMessage == IF outcome.text # "" THEN outcome.text ELSE "GraphQL error"
      Resp(kind, success, status, called) ==
        AbortResponse(kind, success, status, sid, called)
  IN  IF sid = Null
      THEN [jobs |-> js, resp |-> Resp("nothing_pending", FALSE, 404, FALSE)]
      ELSE CASE outcome.kind = "throw" ->
                  [jobs |-> js, resp |-> Resp("internal_error", FALSE, 500, TRUE)]
             [] outcome.kind = "http_error" ->
                  \* the upstream's status is passed on, here a 502
                  [jobs |-> js, resp |-> Resp("api_error", FALSE, 502, TRUE)]
             [] outcome.kind = "gql_error" /\ isAlreadyProcessing(errorMessage) ->
                  [jobs |-> MarkCancelled(js, sid,
                              "ShipHero: " \o errorMessage
                                \o ". Marked as cancelled locally.", t),
                   resp |-> Resp("soft", TRUE, 200, TRUE)]
             [] outcome.kind = "gql_error" ->
                  [jobs |-> js, resp |-> Resp("gql_error", FALSE, 400, TRUE)]
             [] OTHER ->
                  [jobs |-> MarkCancelled(js, sid, why, t),
                   resp |-> Resp("aborted", TRUE, 200, TRUE)]

Abort(given, reason, outcome) ==
  /\ aborts < MaxAborts
  /\ aborts' = aborts + 1
  /\ jobs' = AbortResult(jobs, given, reason, outcome, now).jobs
  /\ abortResp' = AbortResult(jobs, given, reason, outcome, now).resp
  /\ UNCHANGED <<now, expires_at, trig, poller, inflight, polls>>
  /\ UNCHANGED ingVars

\* The same request where its response is not looked at: one that changes
\* the table.
AbortJobs ==
  /\ aborts < MaxAborts
  /\ aborts' = aborts + 1
  /\ \E given \in {Null} \cup (1..MaxJobs) :
       \E o \in {x \in AbortOutcomes : x.text \in {"", "Cannot abort this snapshot"}} :
         /\ jobs' = AbortResult(jobs, given, "", o, now).jobs
         /\ jobs' # jobs
  /\ UNCHANGED <<now, expires_at, trig, poller, inflight, abortResp, polls>>
  /\ UNCHANGED ingVars

\* The requests of SpecAbort.
AbortRequest ==
  \E given \in {Null} \cup (1..MaxAbortJobs) : \E reason \in AbortReasons :
    \E o \in AbortOutcomes : Abort(given, reason, o)

(***************************************************************************)
(* Identifier codec of process-snapshot                                     *)
(***************************************************************************)
\* A text is a sequence of one-character strings.  An identifier as it stands
\* in a file is [b64, text]: the Base64 encoding of text when b64, and
\* otherwise the characters of text themselves, which atob rejects.
DigitChars == <<"0", "1", "2", "3", "4", "5", "6", "7", "8", "9">>
IsDigit(c) == \E d \in 1..Len(DigitChars) : DigitChars[d] = c
DigitValue(c) == (CHOOSE d \in 1..Len(DigitChars) : DigitChars[d] = c) - 1

\* atob(encoded); where atob throws, the catch hands the input back.
base64Decode(encoded) == encoded.text

RECURSIVE LeadingDigits(_)
LeadingDigits(text) ==
  IF text = <<>> \/ ~IsDigit(Head(text)) THEN <<>>
  ELSE <<Head(text)>> \o LeadingDigits(Tail(text))

RECURSIVE DecimalValue(_)
DecimalValue(ds) ==
  IF ds = <<>> THEN 0
  ELSE 10 * DecimalValue(SubSeq(ds, 1, Len(ds) - 1)) + DigitValue(ds[Len(ds)])

\* parseInt(text, 10), NaN being Null.  The texts of the model hold no sign
\* and no blank.
parseInt(text) ==
  LET ds == LeadingDigits(text)
  IN  IF ds = <<>> THEN Null ELSE DecimalValue(ds)

\* decoded.split(":")
RECURSIVE split(_)
split(text) ==
  IF \A i \in 1..Len(text) : text[i] # ":" THEN <<text>>
  ELSE LET i == CHOOSE x \in 1..Len(text) :
                  text[x] = ":" /\ \A y \in 1..(x - 1) : text[y] # ":"
       IN  <<SubSeq(text, 1, i - 1)>> \o split(SubSeq(text, i + 1, Len(text)))

decodeShipHeroId(base64Id) ==
  LET decoded == base64Decode(base64Id)
      parts == split(decoded)
  IN  IF Len(parts) >= 2 THEN parseInt(parts[Len(parts)]) ELSE parseInt(decoded)

(***************************************************************************)
(* Flattening: StreamingSnapshotParser.parseAndExtract                      *)
(***************************************************************************)
\* A JSON object is the sequence of its entries in document order.  A file is
\* [wrapped, skus]: the SKU map under the "products" key of the root when
\* wrapped, and the root itself otherwise.  A SKU is [sku, has_wp,
\* warehouse_products], a warehouse entry [key, on_hand, item_bins], a bin
\* [key, name, location_name, quantity]; an absent number is Null, an absent
\* string "", an absent item_bins <<>>.

\* binData.quantity || 0
OrZero(q) == IF q = Null THEN 0 ELSE q

\* Variant for comparison: only a zero quantity is skipped.
SkipsOnlyZero(quantity) == quantity = 0

\* if (quantity <= 0) continue
SkipsQuantity(quantity) == quantity <= 0

\* binData.name || binData.location_name || "UNKNOWN"
binName(binData) ==
  IF binData.name # "" THEN binData.name
  ELSE IF binData.location_name # "" THEN binData.location_name
  ELSE "UNKNOWN"

InventoryRecord(sku, warehouseId, name, binId, quantity) ==
  [sku |-> sku, warehouse_id |-> warehouseId, bin_name |-> name,
   bin_id |-> binId, quantity |-> quantity]

\* for (const [binIdBase64, binData] of Object.entries(itemBins))
RECURSIVE BinLoop(_, _, _, _)
BinLoop(sku, warehouseId, itemBins, i) ==
  IF i > Len(itemBins) THEN <<>>
  ELSE LET binData == itemBins[i]
           quantity == OrZero(binData.quantity)
       IN  (IF SkipsQuantity(quantity) THEN <<>>
            ELSE <<InventoryRecord(sku, warehouseId, binName(binData),
                                   decodeShipHeroId(binData.key), quantity)>>)
           \o BinLoop(sku, warehouseId, itemBins, i + 1)

\* Variant for comparison: an entry none of whose bins holds stock counts as
\* having no bin breakdown.
NoStockedBin(itemBins) ==
  \A b \in 1..Len(itemBins) : SkipsQuantity(OrZero(itemBins[b].quantity))

\* !itemBins || typeof itemBins !== "object" || Object.keys(itemBins).length === 0
NoBinBreakdown(itemBins) == itemBins = <<>>

\* The body of the warehouse loop: the records pushed and the errors pushed.
WarehouseEntry(sku, warehouseData) ==
  LET warehouseId == decodeShipHeroId(warehouseData.key)
  IN  IF warehouseId = Null
      THEN [records |-> <<>>, errors |-> <<warehouseData.key>>]
      ELSE IF NoBinBreakdown(warehouseData.item_bins)
      THEN [records |-> IF warehouseData.on_hand # Null /\ warehouseData.on_hand > 0
                        THEN <<InventoryRecord(sku, warehouseId, "DEFAULT", Null,
                                               warehouseData.on_hand)>>
                        ELSE <<>>,
            errors |-> <<>>]
      ELSE [records |-> BinLoop(sku, warehouseId, warehouseData.item_bins, 1),
            errors |-> <<>>]

\* Variant for comparison: the loop over the warehouses of a SKU ends at the
\* first key that does not decode.
RECURSIVE WarehouseLoopStopping(_, _, _)
WarehouseLoopStopping(sku, warehouseProducts, i) ==
  IF i > Len(warehouseProducts) THEN [records |-> <<>>, errors |-> <<>>]
  ELSE LET here == WarehouseEntry(sku, warehouseProducts[i])
           rest == WarehouseLoopStopping(sku, warehouseProducts, i + 1)
       IN  IF here.errors # <<>> THEN here
           ELSE [records |-> here.records \o rest.records,
                 errors |-> here.errors \o rest.errors]

\* for (const [warehouseIdBase64, warehouseData] of Object.entries(warehouseProducts));
\* an entry that pushed an error is left with continue.
RECURSIVE WarehouseLoop(_, _, _)
WarehouseLoop(sku, warehouseProducts, i) ==
  IF i > Len(warehouseProducts) THEN [records |-> <<>>, errors |-> <<>>]
  ELSE LET here == WarehouseEntry(sku, warehouseProducts[i])
           rest == WarehouseLoop(sku, warehouseProducts, i + 1)
       IN  [records |-> here.records \o rest.records,
            errors |-> here.errors \o rest.errors]

\* for (const [sku, skuData] of Object.entries(productsData))
RECURSIVE SkuLoop(_, _)
SkuLoop(products, i) ==
  IF i > Len(products) THEN [records |-> <<>>, errors |-> <<>>, skus_processed |-> 0]
  ELSE LET skuData == products[i]
           rest == SkuLoop(products, i + 1)
       IN  IF ~skuData.has_wp THEN rest
           ELSE LET here == WarehouseLoop(skuData.sku, skuData.warehouse_products, 1)
                IN  [records |-> here.records \o rest.records,
                     errors |-> here.errors \o rest.errors,
                     skus_processed |-> rest.skus_processed + 1]

\* The root of the parsed document has an object under "products".
HasProductsObject(f) ==
  f.wrapped \/ \E i \in 1..Len(f.skus) : f.skus[i].sku = "products"

\* An object of SKU fields read as a SKU map: its one key is
\* "warehouse_products", and the value under it has no warehouse_products.
FieldsAsSkus == <<[sku |-> "warehouse_products", has_wp |-> FALSE,
                   warehouse_products |-> <<>>]>>

\* rawData.products && typeof rawData.products === "object" ? rawData.products : rawData
productsData(f) ==
  IF ~HasProductsObject(f) THEN f.skus
  ELSE IF f.wrapped THEN f.skus
  ELSE FieldsAsSkus

parseAndExtract(f) ==
  LET r == SkuLoop(productsData(f), 1)
  IN  [records |-> r.records,
       stats |-> [total_records |-> Len(r.records), errors |-> r.errors,
                  skus_processed |-> r.skus_processed]]

(***************************************************************************)
(* Batch upsert: processBatches over inventory_positions                    *)
(***************************************************************************)
\* UNIQUE (sku, warehouse_id, bin_name)
Key(r) == <<r.sku, r.warehouse_id, r.bin_name>>

\* The table is a function from the keys stored to [bin_id, quantity].
EmptyTable == [k \in {} |-> 0]

\* records.slice(i, i + BATCH_SIZE) of batch number batchNum
Batch(records, batchNum) ==
  SubSeq(records, (batchNum - 1) * BATCH_SIZE + 1,
         Min(batchNum * BATCH_SIZE, Len(records)))

totalBatches(records) == CeilDiv(Len(records), BATCH_SIZE)

\* One INSERT ... ON CONFLICT DO UPDATE cannot touch a row twice: the
\* statement fails as a whole.
HasDuplicateKey(batch) ==
  \E i, j \in 1..Len(batch) : i < j /\ Key(batch[i]) = Key(batch[j])

\* Variant for comparison: a writer that adds to the stored quantity.
UpsertAdding(table, k, r) ==
  [bin_id |-> r.bin_id,
   quantity |-> IF k \in DOMAIN table THEN table[k].quantity + r.quantity
                ELSE r.quantity]

\* The row stored under key k for record r:
\* .upsert(rows, {onConflict: "sku,warehouse_id,bin_name", ignoreDuplicates: false})
\* sets every column given, whatever the table holds under k.
UpsertRow(table, k, r) == [bin_id |-> r.bin_id, quantity |-> r.quantity]

Upsert(table, batch) ==
  [k \in DOMAIN table \cup {Key(batch[i]) : i \in 1..Len(batch)} |->
     IF \E i \in 1..Len(batch) : Key(batch[i]) = k
     THEN UpsertRow(table, k, batch[CHOOSE i \in 1..Len(batch) : Key(batch[i]) = k])
     ELSE table[k]]

Ingesters == {"a", "b"}
Other(i) == CHOOSE j \in Ingesters : j # i

\* One run of streamProcessSnapshot.  attempted, failed, overlap and after are
\* history: the batch numbers tried in order, those that failed, whether a
\* batch was written between two batches of the other run, and whether the
\* run began after the other had finished.
IdleIngester ==
  [pc |-> "idle", records |-> <<>>, stats_errors |-> 0, k |-> 0,
   batchesProcessed |-> 0, batch_errors |-> 0, success |-> FALSE,
   attempted |-> <<>>, failed |-> {}, overlap |-> FALSE, after |-> FALSE]

\* parser.parseAndExtract()
Parse(i) ==
  /\ ing[i].pc = "idle"
  /\ LET r == parseAndExtract(file)
     IN  ing' = [ing EXCEPT ![i] =
                   [IdleIngester EXCEPT !.pc = "batches", !.records = r.records,
                                        !.stats_errors = Len(r.stats.errors),
                                        !.k = 1,
                                        !.after = (ing[Other(i)].pc = "done")]]
  /\ UNCHANGED <<file, store>>
  /\ UNCHANGED jobVars

\* Variant for comparison: a loop that stops at the first failed batch.
AfterBatchStopping(batchNum, written, total) ==
  IF written THEN batchNum + 1 ELSE total + 1

\* i += BATCH_SIZE, whether the batch was written or failed
AfterBatch(batchNum, written, total) == batchNum + 1

\* One iteration of the loop of processBatches; dbOk: the database accepts
\* the statement.
WriteBatch(i, dbOk) ==
  /\ ing[i].pc = "batches"
  /\ ing[i].k <= totalBatches(ing[i].records)
  /\ LET st == ing[i]
         o == ing[Other(i)]
         batch == Batch(st.records, st.k)
         written == dbOk /\ ~HasDuplicateKey(batch)
         between == o.pc = "batches" /\ 1 < o.k /\ o.k <= totalBatches(o.records)
         next == [st EXCEPT !.k = AfterBatch(st.k, written, totalBatches(st.records)),
                            !.attempted = Append(@, st.k),
                            !.overlap = @ \/ between]
     IN  IF written
         THEN /\ store' = Upsert(store, batch)
              /\ ing' = [ing EXCEPT ![i] = [next EXCEPT !.batchesProcessed = @ + 1]]
         ELSE /\ store' = store
              /\ ing' = [ing EXCEPT ![i] =
                           [next EXCEPT !.batch_errors = @ + 1,
                                        !.failed = @ \cup {st.k}]]
  /\ UNCHANGED file
  /\ UNCHANGED jobVars

\* The return of processBatches and of streamProcessSnapshot.
Finish(i) ==
  /\ ing[i].pc = "batches"
  /\ ing[i].k > totalBatches(ing[i].records)
  /\ ing' = [ing EXCEPT ![i] =
               [@ EXCEPT !.pc = "done",
                         !.success = (ing[i].batch_errors = 0 /\ ing[i].stats_errors = 0)]]
  /\ UNCHANGED <<file, store>>
  /\ UNCHANGED jobVars

(***************************************************************************)
(* Snapshot files of the model                                              *)
(***************************************************************************)
Id(b64, text) == [b64 |-> b64, text |-> text]

\* "W" and "B" stand for the type names "Warehouse" and "Bin".
W1 == Id(TRUE, <<"W", ":", "1">>)
W12 == Id(TRUE, <<"W", ":", "1", "2">>)
WBad == Id(FALSE, <<"W", "x">>)
B10 == Id(TRUE, <<"B", ":", "1", "0">>)
B11 == Id(TRUE, <<"B", ":", "1", "1">>)
BRaw == Id(FALSE, <<"b", "i", "n">>)

Bin(key, name, location, quantity) ==
  [key |-> key, name |-> name, location_name |-> location, quantity |-> quantity]
Entry(key, onHand, itemBins) ==
  [key |-> key, on_hand |-> onHand, item_bins |-> itemBins]
Sku(sku, warehouseProducts) ==
  [sku |-> sku, has_wp |-> TRUE, warehouse_products |-> warehouseProducts]

MaxBins == 2

WarehouseKeys == {W1, W12, WBad}
BinKeys == {B10, BRaw}
\* name, location_name, quantity: every label source, and a quantity that is
\* positive, zero, negative, absent.
BinPayloads ==
  {<<"X", "Y", 2>>, <<"", "Y", 3>>, <<"", "", 2>>,
   <<"X", "", 0>>, <<"X", "", Null>>, <<"X", "", 0 - 2>>}
Bins == {Bin(k, p[1], p[2], p[3]) : k \in BinKeys, p \in BinPayloads}
OnHands == {Null, 0, 5}

DistinctKeys(l) == \A i, j \in 1..Len(l) : i < j => l[i].key # l[j].key

BinLists == {l \in UNION {[1..n -> Bins] : n \in 0..MaxBins} : DistinctKeys(l)}

\* Every entry of up to MaxBins bins; on_hand varies where there is no bin.
RichEntries ==
  {Entry(k, h, <<>>) : k \in WarehouseKeys, h \in OnHands}
  \cup {Entry(k, 5, l) : k \in WarehouseKeys, l \in BinLists \ {<<>>}}
LiteEntries ==
  {Entry(k, 5, l) : k \in WarehouseKeys, l \in {<<>>, <<Bin(B10, "X", "", 2)>>}}
EntryLists ==
  {<<e>> : e \in RichEntries}
  \cup {l \in {<<e1, e2>> : e1 \in RichEntries, e2 \in LiteEntries} : DistinctKeys(l)}

SkuB == Sku("B", <<Entry(W1, 5, <<Bin(B10, "X", "", 2)>>)>>)

\* Both shapes; one or two SKUs, the first of them possibly named "products".
FlattenFiles ==
  {[wrapped |-> w, skus |-> <<Sku(n, l)>> \o rest] :
     w \in BOOLEAN, n \in {"A", "products"}, l \in EntryLists, rest \in {<<>>, <<SkuB>>}}

\* Three records with different keys.
FileThree ==
  [wrapped |-> FALSE,
   skus |-> <<Sku("A", <<Entry(W1, 5, <<Bin(B10, "X", "", 2), Bin(BRaw, "", "Y", 3)>>),
                         Entry(W12, 5, <<>>)>>)>>]
\* The key of the first record comes again in the second batch, there with no
\* bin id and another quantity.
FileRepeat ==
  [wrapped |-> TRUE,
   skus |-> <<Sku("A", <<Entry(W1, 6, <<Bin(B10, "X", "", 2), Bin(B11, "Y", "", 3),
                                         Bin(BRaw, "X", "", 4)>>)>>)>>]
\* The same key twice in one batch.
FileTwins ==
  [wrapped |-> FALSE,
   skus |-> <<Sku("A", <<Entry(W1, 5, <<Bin(B10, "X", "", 2), Bin(BRaw, "X", "", 3)>>)>>)>>]
\* Five records, and an entry whose warehouse key does not decode.
FileFive ==
  [wrapped |-> TRUE,
   skus |-> <<Sku("A", <<Entry(W1, 6, <<Bin(B10, "X", "", 2), Bin(B11, "Y", "", 3),
                                         Bin(BRaw, "", "", 1)>>),
                         Entry(WBad, 5, <<>>),
                         Entry(W12, 5, <<>>)>>),
              SkuB>>]
\* Five records, every key decodes.
FileFiveClean ==
  [wrapped |-> FALSE,
   skus |-> <<Sku("A", <<Entry(W1, 6, <<Bin(B10, "X", "", 2), Bin(B11, "Y", "", 3),
                                         Bin(BRaw, "", "", 1)>>),
                         Entry(W12, 5, <<>>)>>),
              SkuB>>]
IngestFiles == {FileThree, FileRepeat, FileTwins, FileFive, FileFiveClean}

\* inventory_positions before the ingestions: a key the files write again, a
\* key of another warehouse that no file holds, and a key of warehouse 1 that
\* no file holds.
SeedStore ==
  [k \in {<<"A", 1, "X">>, <<"Z", 9, "OLD">>, <<"A", 1, "GONE">>} |->
     IF k[3] = "X" THEN [bin_id |-> 10, quantity |-> 9]
     ELSE IF k[3] = "OLD" THEN [bin_id |-> 7, quantity |-> 4]
     ELSE [bin_id |-> 12, quantity |-> 3]]

(***************************************************************************)
(* Specifications                                                           *)
(***************************************************************************)
InitJobs(expiries) ==
  /\ now = 0
  /\ expires_at \in expiries
  /\ jobs = <<>>
  /\ trig = NoTrigger
  /\ poller = [p \in Pollers |-> IdlePoller]
  /\ inflight = {}
  /\ abortResp = NoAbort
  /\ polls = 0
  /\ aborts = 0

InitWith(expiries) ==
  /\ InitJobs(expiries)
  /\ file = <<>>
  /\ store = EmptyTable
  /\ ing = <<>>

InitFiles(files) ==
  /\ InitJobs({500})
  /\ file \in files
  /\ store = SeedStore
  /\ ing = [i \in Ingesters |-> IdleIngester]

\* The stored token is valid throughout.
Init == InitWith({500})

Next ==
  \/ Tick
  \/ TriggerJobs
  \/ \E p \in Pollers : PollStart(p)
  \/ \E p \in Pollers : PollReturn(p)
  \/ \E p \in Pollers : PollVisitStale(p)
  \/ \E p \in Pollers : \E r \in UpResponses : PollVisitQuery(p, r)
  \/ \E p \in Pollers : PollCallThrows(p)
  \/ \E p \in Pollers : IngestBegin(p)
  \/ \E p \in Pollers : IngestFetchThrows(p)
  \/ \E p \in Pollers : \E total \in Totals : \E derr \in BOOLEAN : IngestParsed(p, total, derr)
  \/ \E p \in Pollers : \E ok \in BOOLEAN : IngestBatch(p, ok)
  \/ ProgressLands
  \/ \E p \in Pollers : IngestFinal(p)
  \/ AbortJobs

Spec == Init /\ [][Next]_vars

\* Abort requests against tables that triggers and one poll at a time, with
\* its ingestion calls, have written.
NextAbort ==
  \/ TriggerMore
  \/ PollStart("p1")
  \/ PollReturn("p1")
  \/ \E r \in UpResponses : PollVisitQuery("p1", r)
  \/ PollCallThrows("p1")
  \/ IngestBegin("p1")
  \/ IngestFetchThrows("p1")
  \/ \E total \in Totals : \E derr \in BOOLEAN : IngestParsed("p1", total, derr)
  \/ \E ok \in BOOLEAN : IngestBatch("p1", ok)
  \/ ProgressLands
  \/ IngestFinal("p1")
  \/ AbortRequest

SpecAbort == Init /\ [][NextAbort]_vars

\* The lifecycle under a schedule that keeps polling: the invocations of
\* check-snapshot are not counted, and each begins after the one before has
\* answered.
PollRun(p) ==
  \/ PollVisitStale(p)
  \/ \E r \in UpResponses : PollVisitQuery(p, r)
  \/ PollCallThrows(p)
  \/ IngestBegin(p)
  \/ IngestFetchThrows(p)
  \/ \E total \in Totals : \E derr \in BOOLEAN : IngestParsed(p, total, derr)
  \/ \E ok \in BOOLEAN : IngestBatch(p, ok)
  \/ IngestFinal(p)
  \/ PollReturn(p)

NextLive ==
  \/ Tick
  \/ TriggerJobs
  \/ PollAgain("p1")
  \/ PollRun("p1")
  \/ ProgressLands

\* Time advances whatever requests are under way; the schedule invokes a
\* poll again whenever the last one has answered; an invocation runs to its
\* answer; an update request that was issued reaches the table.
Fairness ==
  /\ SF_vars(Tick)
  /\ WF_vars(PollAgain("p1"))
  /\ WF_vars(PollRun("p1"))
  /\ WF_vars(ProgressLands)

SpecLive == Init /\ [][NextLive]_vars /\ Fairness

NextTrigger ==
  \/ Tick
  \/ TriggerAll
  \/ TriggerOne

SpecTrigger == InitWith(TokenExpiries) /\ [][NextTrigger]_vars

NextFlatten == \E i \in Ingesters : Parse(i)

SpecFlatten == InitFiles(FlattenFiles) /\ [][NextFlatten]_vars

NextIngest ==
  \/ \E i \in Ingesters : Parse(i)
  \/ \E i \in Ingesters : \E dbOk \in BOOLEAN : WriteBatch(i, dbOk)
  \/ \E i \in Ingesters : Finish(i)

SpecIngest == InitFiles(IngestFiles) /\ [][NextIngest]_vars

(***************************************************************************)
(* Properties                                                               *)
(***************************************************************************)
AllowedTransitions ==
  {<<"pending", "processing">>, <<"pending", "failed">>, <<"pending", "cancelled">>,
   <<"processing", "cancelled">>, <<"processing", "completed">>,
   <<"processing", "failed">>}

\* C1: a job changes status only along pending->processing, pending->failed,
\* pending->cancelled, processing->cancelled, processing->completed,
\* processing->failed; a completed, failed or cancelled job keeps its status.
C1_StatusMovesForwardOnly ==
  [][\A j \in DOMAIN jobs :
       jobs'[j].status # jobs[j].status
         => <<jobs[j].status, jobs'[j].status>> \in AllowedTransitions]_vars

\* C2: when a poll visits a job created more than 2 hours (120 minutes)
\* before, that step sets the job to failed with the timeout message and a
\* completed_at, reports it failed and marked_stale, counts it as timed out,
\* and issues neither a status query nor an ingestion call for it.
C2_StaleJobIsTimedOut ==
  [][\A p \in Pollers :
       (/\ poller[p].pc = "loop"
        /\ poller'[p] # poller[p]
        /\ now - jobs[Cur(p).id].created_at > 2 * 60)
       => LET id == Cur(p).id
              n == Len(poller'[p].results)
          IN  /\ jobs'[id].status = "failed"
              /\ jobs'[id].error_message = "timeout"
              /\ jobs'[id].completed_at = now
              /\ n = Len(poller[p].results) + 1
              /\ poller'[p].results[n] = JobResult(id, "failed", FALSE, TRUE)
              /\ poller'[p].stale = poller[p].stale + 1
              /\ poller'[p].queried = poller[p].queried
              /\ poller'[p].calls = poller[p].calls
              /\ poller'[p].pc \in {"loop", "return"}]_vars

\* A poll holds the result of a job it timed out, and that job had been set
\* to processing before.
C2_Witness ==
  \E p \in Pollers : \E n \in 1..Len(poller[p].results) :
    /\ poller[p].results[n].marked_stale
    /\ jobs[poller[p].results[n].snapshot_id].started_at # Null

\* C3: a job a poll takes through the pending branch (upstream ready, with a
\* url) has been set to processing when ingestion is called, ingestion is
\* called at most once for it in that poll, and when the poll returns the job
\* is completed if the ingestion ended without errors and failed otherwise.
\* Stated for a poll that runs alone: no other poll and no abort.
C3_ReadyPendingJobIsFinalized ==
  \A p \in Pollers :
    (polls = 1 /\ aborts = 0) =>
      /\ (poller[p].pc \in {"call", "fetch", "batches"} /\ ~poller[p].retry)
           => jobs[Cur(p).id].started_at # Null
      /\ \A id \in poller[p].fresh :
           Cardinality({n \in 1..Len(poller[p].calls) : poller[p].calls[n] = id}) <= 1
      /\ poller[p].pc = "return"
           => \A id \in poller[p].fresh :
                jobs[id].status = IF <<id, "success">> \in poller[p].ended
                                  THEN "completed" ELSE "failed"

BothDone == \A i \in Ingesters : ing[i].pc = "done"
NoBatchErrors == \A i \in Ingesters : ing[i].batch_errors = 0

\* The table one ingestion of records leaves when the database accepts every
\* statement.
RECURSIVE WriteAll(_, _, _)
WriteAll(table, records, batchNum) ==
  IF batchNum > totalBatches(records) THEN table
  ELSE WriteAll(IF HasDuplicateKey(Batch(records, batchNum)) THEN table
                ELSE Upsert(table, Batch(records, batchNum)),
                records, batchNum + 1)

\* The table one ingestion leaves whose batches in failed were refused.
RECURSIVE WriteExcept(_, _, _, _)
WriteExcept(table, records, failed, batchNum) ==
  IF batchNum > totalBatches(records) THEN table
  ELSE WriteExcept(IF batchNum \in failed THEN table
                   ELSE Upsert(table, Batch(records, batchNum)),
                   records, failed, batchNum + 1)

\* C4: two ingestions of the same file whose batch writes interleave in any
\* way, every write accepted, leave the table a single ingestion of the file
\* leaves.
C4_OverlappingIngestionsAgree ==
  (BothDone /\ NoBatchErrors)
    => store = WriteAll(SeedStore, parseAndExtract(file).records, 1)

\* Both ingestions are through a file of several batches, and one wrote a
\* batch between two batches of the other.
C4_Witness ==
  /\ BothDone
  /\ NoBatchErrors
  /\ \E i \in Ingesters : ing[i].overlap
  /\ totalBatches(ing["a"].records) >= 2

\* C5: an ingestion of k batches of which the set F fails has tried every
\* batch, in order; batches_processed is k - |F|; success is false when F is
\* not empty; the records of every batch outside F are stored, and with no
\* other ingestion running the table is the one the batches outside F leave.
C5_FailedBatchesDoNotStopOthers ==
  \A i \in Ingesters :
    ing[i].pc = "done" =>
      LET k == totalBatches(ing[i].records)
      IN  /\ ing[i].attempted = [n \in 1..k |-> n]
          /\ ing[i].batchesProcessed = k - Cardinality(ing[i].failed)
          /\ (ing[i].failed # {} => ~ing[i].success)
          /\ \A n \in (1..k) \ ing[i].failed :
               \A m \in 1..Len(Batch(ing[i].records, n)) :
                 Key(Batch(ing[i].records, n)[m]) \in DOMAIN store
          /\ (ing[Other(i)].pc = "idle"
                => store = WriteExcept(SeedStore, ing[i].records, ing[i].failed, 1))

\* An ingestion of three batches is through, its second batch failed, the
\* first and the third were written.
C5_Witness ==
  \E i \in Ingesters :
    /\ ing[i].pc = "done"
    /\ totalBatches(ing[i].records) = 3
    /\ ing[i].failed = {2}
    /\ ing[i].batchesProcessed = 2
    /\ ing[Other(i)].pc = "idle"

\* C6: a file ingested a second time after the first ingestion has finished,
\* both without batch errors: every key has the quantity stored that one
\* ingestion leaves.
C6_SecondIngestionKeepsQuantities ==
  (BothDone /\ NoBatchErrors /\ \E i \in Ingesters : ing[i].after)
    => LET once == WriteAll(SeedStore, parseAndExtract(file).records, 1)
       IN  /\ DOMAIN store = DOMAIN once
           /\ \A k \in DOMAIN store : store[k].quantity = once[k].quantity

\* The second ingestion began after the first was through, and the file
\* gives records.
C6_Witness ==
  /\ BothDone
  /\ NoBatchErrors
  /\ \E i \in Ingesters : ing[i].after
  /\ ing["a"].records # <<>>
  /\ ing["b"].batchesProcessed >= 1

\* C7: a written batch replaces the stored quantity of each of its keys, and
\* replaces the stored bin_id only by a bin_id that is not null.
C7_NullBinIdKeepsStoredBinId ==
  [][\A i \in Ingesters :
       (ing[i].pc = "batches" /\ ing'[i].batchesProcessed = ing[i].batchesProcessed + 1)
       => LET batch == Batch(ing[i].records, ing[i].k)
          IN  \A m \in 1..Len(batch) :
                LET r == batch[m]
                    k == Key(r)
                IN  /\ store'[k].quantity = r.quantity
                    /\ store'[k].bin_id =
                         IF r.bin_id = Null /\ k \in DOMAIN store
                         THEN store[k].bin_id ELSE r.bin_id]_vars

\* The cells of a file: <<s, e, b>> for bin b of entry e of SKU s, and
\* <<s, e, 0>> for an entry without bins.
Cells(f) ==
  UNION {UNION {LET bins == f.skus[s].warehouse_products[e].item_bins
                IN  {<<s, e, b>> : b \in IF bins = <<>> THEN {0} ELSE 1..Len(bins)} :
                e \in 1..Len(f.skus[s].warehouse_products)} :
         s \in 1..Len(f.skus)}

CellQuantity(f, c) ==
  LET w == f.skus[c[1]].warehouse_products[c[2]]
  IN  IF c[3] = 0 THEN w.on_hand ELSE w.item_bins[c[3]].quantity

PositiveCells(f) == {c \in Cells(f) : CellQuantity(f, c) # Null /\ CellQuantity(f, c) > 0}

CellRecord(f, c) ==
  LET w == f.skus[c[1]].warehouse_products[c[2]]
      wid == decodeShipHeroId(w.key)
  IN  IF c[3] = 0
      THEN InventoryRecord(f.skus[c[1]].sku, wid, "DEFAULT", Null, w.on_hand)
      ELSE InventoryRecord(f.skus[c[1]].sku, wid, binName(w.item_bins[c[3]]),
                           decodeShipHeroId(w.item_bins[c[3]].key),
                           w.item_bins[c[3]].quantity)

\* Every warehouse key decodes, and the SKUs of a legacy file do not include
\* the name "products", which tells the shapes apart.
ValidFile(f) ==
  /\ \A s \in 1..Len(f.skus) : \A e \in 1..Len(f.skus[s].warehouse_products) :
       decodeShipHeroId(f.skus[s].warehouse_products[e].key) # Null
  /\ (~f.wrapped => \A s \in 1..Len(f.skus) : f.skus[s].sku # "products")

\* C8: flattening a valid file of either shape gives one record for each
\* cell of the file with a quantity above zero and none for a cell whose
\* quantity is absent, zero or negative: the records are, as a multiset, the
\* records of the positive cells.
C8_OneRecordPerPositiveCell ==
  \A i \in Ingesters :
    (ing[i].pc # "idle" /\ ValidFile(file)) =>
      LET recs == ing[i].records
          pos == PositiveCells(file)
      IN  /\ Len(recs) = Cardinality(pos)
          /\ \A c \in pos :
               Cardinality({n \in 1..Len(recs) : recs[n] = CellRecord(file, c)})
                 = Cardinality({d \in pos : CellRecord(file, d) = CellRecord(file, c)})
          /\ \A n \in 1..Len(recs) : recs[n].quantity > 0

\* A legacy file of two SKUs is flattened: it holds a bin with a quantity
\* that is not positive, and gives at least two records.
C8_Witness ==
  \E i \in Ingesters :
    /\ ing[i].pc # "idle"
    /\ ValidFile(file)
    /\ ~file.wrapped
    /\ Len(file.skus) = 2
    /\ Len(ing[i].records) >= 2
    /\ \E c \in Cells(file) \ PositiveCells(file) : c[3] > 0

\* The rows the last trigger request inserted.
Created == {j \in DOMAIN jobs : j > trig.before}
CreatedFor(w) == {j \in Created : jobs[j].warehouse_id = w}

ResultsFor(w) == {n \in 1..Len(trig.results) : trig.results[n].warehouse_id = w}

C11_QueryErrorsLeaveJobUntouched ==
  [][\A p \in Pollers : \A r \in UpResponses :
       (/\ r.kind \in {"http_error", "gql_not_found", "gql_other", "throw"}
        /\ PollVisitQuery(p, r))
       => /\ poller'[p].i = poller[p].i + 1
          /\ poller'[p].pc \in {"loop", "return"}
          /\ Len(poller'[p].results) = Len(poller[p].results) + 1
          /\ (r.kind = "gql_not_found" => jobs'[Cur(p).id].status = "failed")
          /\ (r.kind # "gql_not_found" => jobs' = jobs)]_vars

\* C12: when a poll visits a job it selected as processing, not stale, and the
\* upstream answers ready with a url, it calls ingestion again if and only if
\* more than 5 minutes have passed since the job first entered processing.
C12_RetryAfterFiveMinutesInProcessing ==
  [][\A p \in Pollers : \A r \in UpResponses :
       (/\ r.kind = "data"
        /\ r.status \in {"InventorySnapshotStatus.success", "Completed with errors"}
        /\ r.url
        /\ poller[p].pc = "loop"
        /\ Cur(p).status = "processing"
        /\ PollVisitQuery(p, r))
       => ((poller'[p].pc = "call" /\ poller'[p].retry)
             <=> now - jobs[Cur(p).id].first_processing_at > 5)]_vars

\* The snapshot an abort request is about, and the rows that carry it.
AbortTarget(given) == IF given # Null THEN given ELSE LatestPending(jobs)
TargetRows(given) == {j \in DOMAIN jobs : jobs[j].snapshot_id = AbortTarget(given)}
AbortInputs == ({Null} \cup (1..MaxAbortJobs)) \X AbortReasons \X AbortOutcomes

\* C13: an abort whose target is a job and whose upstream mutation succeeds
\* sets that job to cancelled with the request's reason as error_message
\* ("Cancelled by user" when the request gives none) and completed_at,
\* changes no other job, and answers success.
C13_ConfirmedAbortCancelsJob ==
  [][\A in \in AbortInputs :
       (/\ in[3].kind = "ok"
        /\ TargetRows(in[1]) # {}
        /\ Abort(in[1], in[2], in[3]))
       => /\ \A j \in DOMAIN jobs :
               IF j \in TargetRows(in[1])
               THEN /\ jobs'[j].status = "cancelled"
                    /\ jobs'[j].error_message =
                         (IF in[2] = "" THEN "Cancelled by user" ELSE in[2])
                    /\ jobs'[j].completed_at = now
               ELSE jobs'[j] = jobs[j]
          /\ abortResp'.success
          /\ abortResp'.status = 200
          /\ abortResp'.snapshot_id = AbortTarget(in[1])]_vars

\* An abort with a reason of its own was confirmed for a job that was being
\* processed.
C13_Witness ==
  /\ abortResp.kind = "aborted"
  /\ \E j \in DOMAIN jobs :
       /\ jobs[j].snapshot_id = abortResp.snapshot_id
       /\ jobs[j].status = "cancelled"
       /\ jobs[j].error_message = "stock recount"
       /\ jobs[j].started_at # Null
       /\ jobs[j].completed_at # Null

\* C14: an abort the upstream rejects with an error text that contains
\* "already", "process" or "cannot abort" still sets the job to cancelled,
\* with a note that quotes the upstream's text and with completed_at, and
\* answers success: true.
C14_SoftRejectionStillCancels ==
  [][\A in \in AbortInputs :
       (/\ in[3].kind = "gql_error"
        /\ in[3].text \in {"Snapshot is already finished",
                           "Error while processing the request",
                           "Cannot abort this snapshot"}
        /\ TargetRows(in[1]) # {}
        /\ Abort(in[1], in[2], in[3]))
       => /\ \A j \in TargetRows(in[1]) :
               /\ jobs'[j].status = "cancelled"
               /\ jobs'[j].error_message =
                    "ShipHero: " \o in[3].text \o ". Marked as cancelled locally."
               /\ jobs'[j].completed_at = now
          /\ abortResp'.success
          /\ abortResp'.status = 200]_vars

\* The upstream answered "Error while processing the request" and the pending
\* job is cancelled with the note.
C14_Witness ==
  /\ abortResp.kind = "soft"
  /\ abortResp.success
  /\ \E j \in DOMAIN jobs :
       /\ jobs[j].snapshot_id = abortResp.snapshot_id
       /\ jobs[j].status = "cancelled"
       /\ jobs[j].error_message =
            "ShipHero: Error while processing the request. Marked as cancelled locally."
       /\ jobs[j].started_at = Null

\* C15: an abort whose upstream call fails outside the soft class (a non-2xx
\* answer, an error text without "already", "process" and "cannot abort", a
\* failed transport) answers with a failure and changes no row.
C15_HardFailureChangesNothing ==
  [][\A in \in AbortInputs :
       (/\ \/ in[3].kind \in {"http_error", "throw"}
           \/ in[3].kind = "gql_error" /\ in[3].text \in {"Snapshot not found", ""}
        /\ AbortTarget(in[1]) # Null
        /\ Abort(in[1], in[2], in[3]))
       => /\ jobs' = jobs
          /\ ~abortResp'.success
          /\ abortResp'.status >= 400
          /\ abortResp'.called]_vars

\* The upstream answered "Snapshot not found" for a job that is still being
\* processed.
C15_Witness ==
  /\ abortResp.kind = "gql_error"
  /\ ~abortResp.success
  /\ \E j \in DOMAIN jobs :
       /\ jobs[j].snapshot_id = abortResp.snapshot_id
       /\ jobs[j].status = "processing"

\* C16: an abort without a snapshot id while no job is pending sends nothing
\* upstream, changes no row, and gives the "nothing pending" answer, which is
\* no error: it reports success and no error status.
C16_NothingPendingIsNoError ==
  [][\A in \in AbortInputs :
       (/\ in[1] = Null
        /\ \A j \in DOMAIN jobs : jobs[j].status # "pending"
        /\ Abort(in[1], in[2], in[3]))
       => /\ jobs' = jobs
          /\ ~abortResp'.called
          /\ abortResp'.kind = "nothing_pending"
          /\ abortResp'.success
          /\ abortResp'.status < 400]_vars

\* C17: every job whose total_items is set has processed_items <= total_items.
C17_ProcessedWithinTotal ==
  \A j \in DOMAIN jobs :
    jobs[j].total_items # Null => jobs[j].processed_items <= jobs[j].total_items

\* C18: started_at is written once: a step changes it only when it was not
\* set before.
C18_StartedAtWrittenOnce ==
  [][\A j \in DOMAIN jobs :
       jobs'[j].started_at # jobs[j].started_at => jobs[j].started_at = Null]_vars

\* C19: completed_at is written once, on entry to a terminal status: it is
\* not set while the job is pending or processing, it is set when the job is
\* completed, failed or cancelled, and a step changes it only when it was not
\* set before.
C19_CompletedAtWrittenOnce ==
  [][\A j \in DOMAIN jobs :
       /\ (jobs'[j].status \in ActiveStatus => jobs'[j].completed_at = Null)
       /\ (jobs'[j].status \in Terminal => jobs'[j].completed_at # Null)
       /\ (jobs'[j].completed_at # jobs[j].completed_at
             => jobs[j].completed_at = Null)]_vars

\* C20: when a poll visits a job that is not stale and the upstream's status
\* is one the poll takes for failed (a text with "error" that is not ready
\* with a url), the job is set to failed with the upstream's error text, or
\* the generic message when there is none, and completed_at, and no ingestion
\* is called for it.
C20_UpstreamFailureFailsJob ==
  [][\A p \in Pollers : \A r \in UpResponses :
       (/\ r.kind = "data"
        /\ \/ r.status = "InventorySnapshotStatus.error"
           \/ r.status = "Completed with errors" /\ ~r.url
        /\ PollVisitQuery(p, r))
       => LET id == Cur(p).id
          IN  /\ jobs'[id].status = "failed"
              /\ jobs'[id].error_message =
                   (IF r.error THEN "upstream_error" ELSE "upstream_generic")
              /\ jobs'[id].completed_at = now
              /\ poller'[p].calls = poller[p].calls
              /\ poller'[p].pc \in {"loop", "return"}
              /\ poller'[p].failed = poller[p].failed + 1]_vars

\* A poll has counted a failure for a job the upstream reported failed
\* without an error text, after the job had been set to processing.
C20_Witness ==
  \E p \in Pollers : \E j \in DOMAIN jobs :
    /\ poller[p].pc = "return"
    /\ poller[p].failed = 1
    /\ poller[p].calls = <<>>
    /\ jobs[j].status = "failed"
    /\ jobs[j].error_message = "upstream_generic"
    /\ jobs[j].started_at # Null

\* C21: a trigger run while the stored token expires within 5 minutes
\* (expires_at - now <= 5, an expired token included) answers token_expired,
\* requests no snapshot for any warehouse, creates no job and leaves the
\* stored token as it is; a trigger run with more than 5 minutes left does not
\* answer token_expired.
C21_ExpiringTokenStopsTrigger ==
  [][(TriggerAll \/ TriggerOne)
       => IF expires_at - now <= 5
          THEN /\ trig'.kind = "token_expired"
               /\ trig'.requested = <<>>
               /\ trig'.sync_jobs = <<>>
               /\ jobs' = jobs
               /\ expires_at' = expires_at
          ELSE trig'.kind # "token_expired"]_vars

\* A trigger was refused exactly 5 minutes before the expiry, after an
\* earlier trigger had created jobs.
C21_Witness ==
  /\ trig.kind = "token_expired"
  /\ expires_at - now = 5
  /\ Len(jobs) >= 1

\* The entries of a file that have no bin breakdown, a decodable warehouse
\* key and an on_hand above zero.
BareCells(f) ==
  {c \in Cells(f) :
     /\ c[3] = 0
     /\ decodeShipHeroId(f.skus[c[1]].warehouse_products[c[2]].key) # Null
     /\ CellQuantity(f, c) # Null
     /\ CellQuantity(f, c) > 0}

\* The file is read in the shape it was written in.
ShapeTold(f) == f.wrapped \/ \A s \in 1..Len(f.skus) : f.skus[s].sku # "products"

BadEntries(f) ==
  {c \in {<<s, e>> : s \in 1..Len(f.skus), e \in 1..MaxBins + 1} :
     /\ c[2] <= Len(f.skus[c[1]].warehouse_products)
     /\ decodeShipHeroId(f.skus[c[1]].warehouse_products[c[2]].key) = Null}

\* The cells with a quantity above zero of the entries whose key decodes.
GoodPositiveCells(f) == {c \in PositiveCells(f) : <<c[1], c[2]>> \notin BadEntries(f)}

\* C23: an entry whose warehouse key does not decode adds one error and no
\* record, and does not end the ingestion: the records emitted are those of
\* all the other entries, before and after it and of the other SKUs, and a
\* run all of whose batches were accepted has every one of them stored.
C23_UndecodableWarehouseIsSkipped ==
  \A i \in Ingesters :
    (ing[i].pc # "idle" /\ ShapeTold(file)) =>
      LET recs == ing[i].records
          good == GoodPositiveCells(file)
      IN  /\ ing[i].stats_errors = Cardinality(BadEntries(file))
          /\ Len(recs) = Cardinality(good)
          /\ \A c \in good :
               Cardinality({n \in 1..Len(recs) : recs[n] = CellRecord(file, c)})
                 = Cardinality({d \in good : CellRecord(file, d) = CellRecord(file, c)})
          /\ \A n \in 1..Len(recs) : recs[n].warehouse_id # Null
          /\ (ing[i].pc = "done" /\ ing[i].failed = {}) =>
               \A n \in 1..Len(recs) :
                 /\ Key(recs[n]) \in DOMAIN store
                 /\ \E m \in 1..Len(recs) :
                      /\ Key(recs[m]) = Key(recs[n])
                      /\ store[Key(recs[n])] =
                           [bin_id |-> recs[m].bin_id, quantity |-> recs[m].quantity]

\* A finished run over a file with one undecodable warehouse key between two
\* entries that decode: one error, five records, all batches accepted, and
\* the record of the entry after the bad one is stored.
C23_Witness ==
  \E i \in Ingesters :
    /\ ing[i].pc = "done"
    /\ ing[i].failed = {}
    /\ Cardinality(BadEntries(file)) = 1
    /\ ing[i].stats_errors = 1
    /\ Len(ing[i].records) = 5
    /\ ~ing[i].success
    /\ <<"A", 12, "DEFAULT">> \in DOMAIN store

\* C24: when a poll visits a job and the upstream's status text contains
\* "complete" or "success", with or without a download url and whatever else
\* the text holds, the classification does not set the job to failed and
\* does not count it as failed.
C24_ReadyTextIsNeverFailed ==
  [][\A p \in Pollers : \A r \in UpResponses :
       (/\ r.kind = "data"
        /\ r.status \in {"InventorySnapshotStatus.success", "Completed with errors"}
        /\ PollVisitQuery(p, r))
       => LET id == Cur(p).id
          IN  /\ jobs'[id].status # "failed"
              /\ poller'[p].failed = poller[p].failed]_vars

\* The last instant of the model's clock.
LastInstant == CHOOSE t \in Instants : \A u \in Instants : u <= t

C26_FinishedIngestionLeavesJobTerminal ==
  [][\A p \in Pollers :
       /\ IngestFinal(p)
            => jobs'[Cur(p).id].status =
                 (IF poller[p].berrs = 0 /\ ~poller[p].derr THEN "completed" ELSE "failed")
       /\ IngestFetchThrows(p) => jobs'[Cur(p).id].status = "failed"]_vars

\* C27: the records flattened from one file have pairwise different keys
\* (sku, warehouse_id, bin_name).
C27_FlattenedKeysAreDistinct ==
  \A i \in Ingesters :
    ing[i].pc # "idle" =>
      \A m, n \in 1..Len(ing[i].records) :
        m < n => Key(ing[i].records[m]) # Key(ing[i].records[n])

\* C28: when an ingestion has finished with no error, the positions stored
\* with a quantity above zero for each warehouse of its file are exactly the
\* keys of the records flattened from the file.
C28_StoreMirrorsSnapshot ==
  \A i \in Ingesters :
    (ing[i].pc = "done" /\ ing[i].success) =>
      LET recs == ing[i].records
          warehouses == {recs[n].warehouse_id : n \in 1..Len(recs)}
      IN  \A w \in warehouses :
            {k \in DOMAIN store : k[2] = w /\ store[k].quantity > 0}
              = {Key(recs[n]) : n \in {m \in 1..Len(recs) : recs[m].warehouse_id = w}}

\* C29: in the answer of a poll the counts completed, still_processing,
\* failed and timed_out add up to total_checked, the number of jobs the poll
\* selected, and no more jobs are counted completed than jobs of the poll
\* are in status completed when it answers.
C29_PollCountsPartitionTheJobs ==
  \A p \in Pollers :
    poller[p].pc = "return" =>
      /\ poller[p].completed + poller[p].processing + poller[p].failed + poller[p].stale
           = Len(poller[p].list)
      /\ poller[p].completed
           <= Cardinality({n \in 1..Len(poller[p].list) :
                            jobs[poller[p].list[n].id].status = "completed"})

\* C30: in the summary answer of a trigger the count successful is the
\* number of rows the request inserted into sync_jobs and the length of the
\* sync_jobs list of the answer, every warehouse reported with success = true
\* has a pending row of this request, and successful + failed is
\* total_warehouses.
C30_SuccessfulCountsPersistedJobs ==
  trig.kind = "summary" =>
    /\ trig.successful = Cardinality(Created)
    /\ trig.successful = Len(trig.sync_jobs)
    /\ \A n \in 1..Len(trig.results) :
         trig.results[n].success
           => \E j \in CreatedFor(trig.results[n].warehouse_id) : jobs[j].status = "pending"
    /\ trig.successful + trig.failed = trig.total_warehouses
====
